---- MODULE Spec2Model ----
(***************************************************************************)
(* Note timing and judgment engine of the rhythm game (src/main.py).       *)
(*                                                                         *)
(* State: the RhythmGame object (state, notes, keys_held, lanes' pressed   *)
(* flags), its ScoreManager (score, combo, max_combo) and its              *)
(* JudgmentDisplay (text, timer).  One action per handler of the main      *)
(* loop: a KEYDOWN event, a KEYUP event, and update() (one frame).         *)
(* Positions are integers; the chart handed to start_game is an input      *)
(* drawn from the bounded set Charts.                                      *)
(*                                                                         *)
(* History variables (not program state): hist records, per note id, its   *)
(* type, how many ledger adds, removals and hold starts it has had and     *)
(* its hit flag when it was removed; ev records what the last handler did. *)
(***************************************************************************)
EXTENDS Integers, Sequences, FiniteSets, TLC

VARIABLES state, notes, keys_held, is_pressed, score, combo, max_combo,
          text, timer, hist, ev

vars == <<state, notes, keys_held, is_pressed, score, combo, max_combo,
          text, timer, hist, ev>>

(***************************************************************************)
(* Program constants                                                       *)
(***************************************************************************)
SCREEN_HEIGHT == 600
note_speed == 5
judgment_line_y == SCREEN_HEIGHT - 100
\* mutant: a hit window one unit wider
hit_range_wide == 60 + 1
hit_range == 60
GRACE_FRAMES == 180
DISPLAY_FRAMES == 30
NUM_LANES == 4

(***************************************************************************)
(* Bounds of the model                                                     *)
(***************************************************************************)
\* chart positions are taken at offsets 0..MaxOffset below a base position,
\* so that every distance 0..59 to the judgment line occurs at some frame
MaxOffset == 4
\* hold lengths of the charts: 12 (not a multiple of the speed) and the
\* multiples of 50 up to 50 * MaxLenUnits
MaxLenUnits == 2

Lanes == 0 .. (NUM_LANES - 1)
Tiers == {"PERFECT", "GREAT", "GOOD", "BAD", "MISS"}
\* the keys of the input events: the start key (mapped to no lane) and the
\* keys of the two lanes the charts use
Keys == {"K_SPACE", "K_a", "K_s"}

\* F(e), with e evaluated once and handed to F as a value (the handlers
\* below are sequences of assignments: each step works on the result of the
\* step before)
Bind(e, F(_)) == CHOOSE r \in {F(w) : w \in {e}} : TRUE

abs(x) == IF x < 0 THEN -x ELSE x
max(a, b) == IF a >= b THEN a ELSE b

(***************************************************************************)
(* Note / LongNote                                                         *)
(***************************************************************************)
\* Note.__init__ ; id is the position of the descriptor in the chart
\* (the identity of the Python object)
Note(id, lane, y) ==
  [id |-> id, lane |-> lane, y |-> y, hit |-> FALSE, type |-> "NORMAL",
   off_screen_time |-> 0, length |-> 0, holding |-> FALSE]

\* LongNote.__init__
LongNote(id, lane, y, length) ==
  [id |-> id, lane |-> lane, y |-> y, hit |-> FALSE, type |-> "LONG",
   off_screen_time |-> 0, length |-> length, holding |-> FALSE]

\* mutant: LongNote.update without its else branch (an unheld hold note
\* does not move)
note_update_no_else(n, speed) ==
  IF n.type = "LONG"
  THEN IF n.holding THEN [n EXCEPT !.length = max(0, n.length - speed * 1)] ELSE n
  ELSE [n EXCEPT !.y = n.y + speed]

\* mutant: the held branch without the floor at 0
note_update_no_floor(n, speed) ==
  IF n.type = "LONG" /\ n.holding
  THEN [n EXCEPT !.length = n.length - speed * 1]
  ELSE [n EXCEPT !.y = n.y + speed]

\* mutant: a held hold note shrinks and its head keeps falling
note_update_held_moves(n, speed) ==
  IF n.type = "LONG" /\ n.holding
  THEN [n EXCEPT !.length = max(0, n.length - speed * 1), !.y = n.y + speed]
  ELSE [n EXCEPT !.y = n.y + speed]

\* Note.update / LongNote.update
note_update(n, speed) ==
  IF n.type = "LONG" /\ n.holding
  THEN [n EXCEPT !.length = max(0, n.length - speed * 1)]
  ELSE [n EXCEPT !.y = n.y + speed]

\* Note.get_distance_from_judgment_line /
\* LongNote.get_head_distance_from_judgment_line
get_distance_from_judgment_line(n) == abs(n.y - judgment_line_y)

\* Note.is_in_hit_range with the default hit_range
is_in_hit_range(n) == abs(n.y - judgment_line_y) < hit_range

\* the head test of check_note_hit: abs(head_y - self.judgment_line_y) < 60
is_head_in_hit_range(n) == abs(n.y - judgment_line_y) < 60

\* LongNote.get_tail_y
get_tail_y(n) == n.y - n.length

\* Note.is_off_screen for a normal note, the tail test of update for a hold
is_off_screen(n) ==
  IF n.type = "NORMAL" THEN n.y > SCREEN_HEIGHT + 50
                       ELSE get_tail_y(n) > SCREEN_HEIGHT + 50

\* LongNote.start_hold
start_hold(n) == [n EXCEPT !.holding = TRUE]

(***************************************************************************)
(* Judgment evaluator and ScoreManager                                     *)
(***************************************************************************)
\* mutant: the bands closed at their upper ends
calculate_judgment_inclusive(distance) ==
  IF distance <= 15 THEN "PERFECT"
  ELSE IF distance <= 30 THEN "GREAT"
  ELSE IF distance <= 45 THEN "GOOD"
  ELSE "BAD"

calculate_judgment(distance) ==
  IF distance < 15 THEN "PERFECT"
  ELSE IF distance < 30 THEN "GREAT"
  ELSE IF distance < 45 THEN "GOOD"
  ELSE "BAD"

\* mutant: a Miss costs points
score_values_penalty(t) ==
  CASE t = "PERFECT" -> 300
    [] t = "GREAT" -> 200
    [] t = "GOOD" -> 100
    [] t = "BAD" -> 50
    [] t = "MISS" -> 0 - 50

score_values(t) ==
  CASE t = "PERFECT" -> 300
    [] t = "GREAT" -> 200
    [] t = "GOOD" -> 100
    [] t = "BAD" -> 50
    [] t = "MISS" -> 0

\* mutant: only MISS breaks the combo
add_score_bad_keeps(W0, t) ==
  Bind(W0, LAMBDA W :
    IF t # "MISS"
    THEN [W EXCEPT !.score = W.score + score_values(t),
                   !.combo = W.combo + 1,
                   !.max_combo = max(W.max_combo, W.combo + 1)]
    ELSE [W EXCEPT !.score = W.score + score_values(t),
                   !.combo = 0])

\* mutant: max_combo raised from the combo before the increment
add_score_stale_max(W0, t) ==
  Bind(W0, LAMBDA W :
    IF t # "MISS" /\ t # "BAD"
    THEN [W EXCEPT !.score = W.score + score_values(t),
                   !.combo = W.combo + 1,
                   !.max_combo = max(W.max_combo, W.combo)]
    ELSE [W EXCEPT !.score = W.score + score_values(t),
                   !.combo = 0])

\* A world W is the part of the state the handlers thread through their
\* loops: notes, the ledger, the display, and the history (hist; log, the
\* ledger adds of this handler; target, d, tier: the note a press acted on,
\* its distance and the judgment computed for it).
\* ScoreManager.add_score on the ledger fields of W
add_score(W0, t) ==
  Bind(W0, LAMBDA W :
    IF t # "MISS" /\ t # "BAD"
    THEN [W EXCEPT !.score = W.score + score_values(t),
                   !.combo = W.combo + 1,
                   !.max_combo = max(W.max_combo, W.combo + 1)]
    ELSE [W EXCEPT !.score = W.score + score_values(t),
                   !.combo = 0])

\* JudgmentDisplay.show_judgment
show_judgment(W, t) == [W EXCEPT !.text = t, !.timer = DISPLAY_FRAMES]

IndexOf(s, id) == CHOOSE i \in 1 .. Len(s) : s[i].id = id
HasId(s, id) == \E i \in 1 .. Len(s) : s[i].id = id
NoteOf(s, id) == s[IndexOf(s, id)]

\* self.notes.remove(note): the list without the object
RemoveSeq(s, id) == SelectSeq(s, LAMBDA n : n.id # id)

notes_remove(W0, id) ==
  Bind(W0, LAMBDA W :
    [W EXCEPT !.notes = RemoveSeq(W.notes, id),
              !.hist = [W.hist EXCEPT ![id].removed = @ + 1,
                                      ![id].hit = NoteOf(W.notes, id).hit]])

\* history: a ledger add made for note id by code path `path`
Logged(W, id, t, path) ==
  [W EXCEPT !.hist[id].adds = @ + 1,
            !.log = Append(@, [id |-> id, tier |-> t, path |-> path])]

\* add_score + show_judgment as every scoring site of the engine pairs them
Resolve(W, id, t, path) == show_judgment(add_score(Logged(W, id, t, path), t), t)

World ==
  [notes |-> notes, score |-> score, combo |-> combo, max_combo |-> max_combo,
   text |-> text, timer |-> timer, hist |-> hist, log |-> <<>>,
   target |-> 0, d |-> -1, tier |-> ""]

NoEvent ==
  [op |-> "none", lane |-> -1, target |-> 0, d |-> -1, tier |-> "", log |-> <<>>]

(***************************************************************************)
(* Lane input router                                                       *)
(***************************************************************************)
\* mutant: a key outside the mapping is taken for lane 0
get_lane_default_0(key) ==
  CASE key = "K_a" -> 0
    [] key = "K_s" -> 1
    [] key = "K_d" -> 2
    [] key = "K_f" -> 3
    [] OTHER -> 0

get_lane_from_key(key) ==
  CASE key = "K_a" -> 0
    [] key = "K_s" -> 1
    [] key = "K_d" -> 2
    [] key = "K_f" -> 3
    [] OTHER -> -1

(***************************************************************************)
(* check_note_hit                                                          *)
(***************************************************************************)
\* mutant: the NORMAL branch without self.notes.remove(note)
hit_normal_no_remove(W, note) ==
  LET distance == get_distance_from_judgment_line(note)
      judgment_type == calculate_judgment(distance)
  IN Bind(Resolve(W, note.id, judgment_type, "press"), LAMBDA W1 :
       [W1 EXCEPT !.notes[IndexOf(W1.notes, note.id)].hit = TRUE,
                  !.target = note.id, !.d = distance, !.tier = judgment_type])

\* the NORMAL branch body: score, show, mark hit, remove
hit_normal(W, note) ==
  LET distance == get_distance_from_judgment_line(note)
      judgment_type == calculate_judgment(distance)
  IN notes_remove(
       Bind(Resolve(W, note.id, judgment_type, "press"), LAMBDA W1 :
         [W1 EXCEPT !.notes[IndexOf(W1.notes, note.id)].hit = TRUE,
                    !.target = note.id, !.d = distance, !.tier = judgment_type]),
       note.id)

\* mutant: the LONG branch without note.hit = True
hit_long_no_hit(W0, note) ==
  LET distance == abs(note.y - judgment_line_y)
      judgment_type == calculate_judgment(distance)
  IN show_judgment(
       Bind(W0, LAMBDA W :
         [W EXCEPT !.notes[IndexOf(W.notes, note.id)] = start_hold(@),
                   !.hist[note.id].starts = @ + 1,
                   !.target = note.id, !.d = distance, !.tier = judgment_type]),
       judgment_type)

\* mutant: the LONG branch scoring the head judgment
hit_long_scores(W0, note) ==
  LET distance == abs(note.y - judgment_line_y)
      judgment_type == calculate_judgment(distance)
  IN Bind(Resolve(W0, note.id, judgment_type, "press"), LAMBDA W :
       [W EXCEPT !.notes[IndexOf(W.notes, note.id)] =
                   start_hold([@ EXCEPT !.hit = TRUE]),
                 !.hist[note.id].starts = @ + 1,
                 !.target = note.id, !.d = distance, !.tier = judgment_type])

\* mutant: the LONG branch removing the note as the NORMAL branch does
hit_long_removes(W0, note) ==
  LET distance == abs(note.y - judgment_line_y)
      judgment_type == calculate_judgment(distance)
  IN notes_remove(
       show_judgment(
         Bind(W0, LAMBDA W :
           [W EXCEPT !.notes[IndexOf(W.notes, note.id)] =
                       start_hold([@ EXCEPT !.hit = TRUE]),
                     !.hist[note.id].starts = @ + 1,
                     !.target = note.id, !.d = distance, !.tier = judgment_type]),
         judgment_type),
       note.id)

\* the LONG branch body: mark hit, start the hold, show the head judgment
hit_long(W0, note) ==
  LET distance == abs(note.y - judgment_line_y)
      judgment_type == calculate_judgment(distance)
  IN show_judgment(
       Bind(W0, LAMBDA W :
         [W EXCEPT !.notes[IndexOf(W.notes, note.id)] =
                     start_hold([@ EXCEPT !.hit = TRUE]),
                   !.hist[note.id].starts = @ + 1,
                   !.target = note.id, !.d = distance, !.tier = judgment_type]),
       judgment_type)

\* the for loop of check_note_hit over the copy `snap` of self.notes, from
\* index i; it returns at the first note it acts on
RECURSIVE scan_note_hit(_, _, _, _)
scan_note_hit(W, snap, lane_index, i) ==
  IF i > Len(snap) THEN W
  ELSE LET note == snap[i] IN
    IF note.lane = lane_index /\ ~note.hit
    THEN IF note.type = "NORMAL"
         THEN IF is_in_hit_range(note)
              THEN hit_normal(W, note)
              ELSE scan_note_hit(W, snap, lane_index, i + 1)
         ELSE IF is_head_in_hit_range(note)
              THEN hit_long(W, note)
              ELSE scan_note_hit(W, snap, lane_index, i + 1)
    ELSE scan_note_hit(W, snap, lane_index, i + 1)

\* mutant: the scan stops at the first unjudged note of the lane, in the
\* window or not
check_first_unjudged_only(W0, lane_index) ==
  Bind(W0, LAMBDA W :
    LET U == {i \in 1 .. Len(W.notes) :
                W.notes[i].lane = lane_index /\ ~W.notes[i].hit}
    IN IF U = {} THEN W
       ELSE LET note == W.notes[CHOOSE i \in U : \A j \in U : i <= j]
            IN IF note.type = "NORMAL"
               THEN IF is_in_hit_range(note) THEN hit_normal(W, note) ELSE W
               ELSE IF is_head_in_hit_range(note) THEN hit_long(W, note) ELSE W)

\* mutant: the press acts on the unjudged note of the lane nearest to the line
check_nearest(W0, lane_index) ==
  Bind(W0, LAMBDA W :
    LET H == {i \in 1 .. Len(W.notes) :
                /\ W.notes[i].lane = lane_index /\ ~W.notes[i].hit
                /\ is_in_hit_range(W.notes[i])}
    IN IF H = {} THEN W
       ELSE LET k == CHOOSE i \in H :
                       \A j \in H :
                         \/ get_distance_from_judgment_line(W.notes[i])
                              < get_distance_from_judgment_line(W.notes[j])
                         \/ /\ get_distance_from_judgment_line(W.notes[i])
                                = get_distance_from_judgment_line(W.notes[j])
                            /\ i <= j
                note == W.notes[k]
            IN IF note.type = "NORMAL" THEN hit_normal(W, note)
                                       ELSE hit_long(W, note))

\* mutant: the loop without the return after a hit
RECURSIVE scan_note_hit_all(_, _, _, _)
scan_note_hit_all(W, snap, lane_index, i) ==
  IF i > Len(snap) THEN W
  ELSE LET note == snap[i] IN
    IF note.lane = lane_index /\ ~note.hit /\ is_in_hit_range(note)
    THEN Bind(IF note.type = "NORMAL" THEN hit_normal(W, note)
                                      ELSE hit_long(W, note),
              LAMBDA W1 : scan_note_hit_all(W1, snap, lane_index, i + 1))
    ELSE scan_note_hit_all(W, snap, lane_index, i + 1)

check_note_hit_all(W0, lane_index) ==
  Bind(W0, LAMBDA W : scan_note_hit_all(W, W.notes, lane_index, 1))

check_note_hit(W0, lane_index) ==
  Bind(W0, LAMBDA W : scan_note_hit(W, W.notes, lane_index, 1))

(***************************************************************************)
(* release_long_notes                                                      *)
(***************************************************************************)
\* mutant: the loop body without self.notes.remove(note)
release_one_no_remove(W, note) ==
  LET t == IF get_tail_y(note) >= judgment_line_y + 30 THEN "GREAT" ELSE "MISS"
  IN Resolve(W, note.id, t, "release")

\* mutant: the tail test with > in place of >=
release_one_strict(W, note) ==
  LET t == IF get_tail_y(note) > judgment_line_y + 30 THEN "GREAT" ELSE "MISS"
  IN notes_remove(Resolve(W, note.id, t, "release"), note.id)

\* mutant: the loop body ending the hold (holding = False) in place of
\* self.notes.remove(note)
release_one_unholds(W, note) ==
  LET t == IF get_tail_y(note) >= judgment_line_y + 30 THEN "GREAT" ELSE "MISS"
  IN Bind(Resolve(W, note.id, t, "release"), LAMBDA W1 :
       [W1 EXCEPT !.notes[IndexOf(W1.notes, note.id)].holding = FALSE])

\* the loop body for one held hold note of the lane
release_one(W, note) ==
  LET t == IF get_tail_y(note) >= judgment_line_y + 30 THEN "GREAT" ELSE "MISS"
  IN notes_remove(Resolve(W, note.id, t, "release"), note.id)

RECURSIVE scan_release(_, _, _, _)
scan_release(W, snap, lane_index, i) ==
  IF i > Len(snap) THEN W
  ELSE LET note == snap[i] IN
    IF note.lane = lane_index /\ note.type = "LONG" /\ note.holding
    THEN Bind(release_one(W, note), LAMBDA W1 :
           scan_release(W1, snap, lane_index, i + 1))
    ELSE scan_release(W, snap, lane_index, i + 1)

\* mutant: the release handler resolves nothing
release_nothing(W0, lane_index) == W0

release_long_notes(W0, lane_index) ==
  Bind(W0, LAMBDA W : scan_release(W, W.notes, lane_index, 1))

(***************************************************************************)
(* update: one frame                                                       *)
(***************************************************************************)
\* "Move notes": note.update(self.note_speed) for every note
move_notes(W) ==
  [W EXCEPT !.notes = [i \in 1 .. Len(@) |-> note_update(@[i], note_speed)]]

\* mutant: the completion test with < in place of <=
complete_one_strict(W, note, held) ==
  IF note.length < 0
  THEN notes_remove(Resolve(W, note.id, IF held[note.lane] THEN "GREAT" ELSE "MISS",
                            "complete"), note.id)
  ELSE IF ~held[note.lane]
       THEN notes_remove(Resolve(W, note.id, "MISS", "tick_release"), note.id)
       ELSE W

\* the body of the "Check long note completion" loop for one held hold note
complete_one(W, note, held) ==
  IF note.length <= 0
  THEN notes_remove(Resolve(W, note.id, IF held[note.lane] THEN "GREAT" ELSE "MISS",
                            "complete"), note.id)
  ELSE IF ~held[note.lane]
       THEN notes_remove(Resolve(W, note.id, "MISS", "tick_release"), note.id)
       ELSE W

RECURSIVE scan_completion(_, _, _, _)
scan_completion(W, snap, held, i) ==
  IF i > Len(snap) THEN W
  ELSE LET note == snap[i] IN
    IF note.type = "LONG" /\ note.holding
    THEN Bind(complete_one(W, note, held), LAMBDA W1 :
           scan_completion(W1, snap, held, i + 1))
    ELSE scan_completion(W, snap, held, i + 1)

\* mutant: the grace test with > in place of >=
off_screen_one_late(W, note) ==
  IF is_off_screen(note)
  THEN IF ~note.hit
       THEN Bind([W EXCEPT !.notes[IndexOf(W.notes, note.id)].off_screen_time = @ + 1],
                 LAMBDA W1 :
                   IF NoteOf(W1.notes, note.id).off_screen_time > GRACE_FRAMES
                   THEN notes_remove(Resolve(W1, note.id, "MISS", "timeout"), note.id)
                   ELSE W1)
       ELSE notes_remove(W, note.id)
  ELSE W

\* the body of the "Handle off-screen notes" loop for one note (both
\* branches of the type test have the same shape)
off_screen_one(W, note) ==
  IF is_off_screen(note)
  THEN IF ~note.hit
       THEN Bind([W EXCEPT !.notes[IndexOf(W.notes, note.id)].off_screen_time = @ + 1],
                 LAMBDA W1 :
                   IF NoteOf(W1.notes, note.id).off_screen_time >= GRACE_FRAMES
                   THEN notes_remove(Resolve(W1, note.id, "MISS", "timeout"), note.id)
                   ELSE W1)
       ELSE notes_remove(W, note.id)
  ELSE W

RECURSIVE scan_off_screen(_, _, _)
scan_off_screen(W, snap, i) ==
  IF i > Len(snap) THEN W
  ELSE Bind(off_screen_one(W, snap[i]), LAMBDA W1 : scan_off_screen(W1, snap, i + 1))

\* JudgmentDisplay.update
display_update(W) == [W EXCEPT !.timer = IF @ > 0 THEN @ - 1 ELSE @]

update_world(W, held) ==
  display_update(
    Bind(Bind(move_notes(W), LAMBDA W1 : scan_completion(W1, W1.notes, held, 1)),
         LAMBDA W2 : scan_off_screen(W2, W2.notes, 1)))

(***************************************************************************)
(* Charts: the pattern list of load_mario_chart, as input data.  A         *)
(* descriptor is <<lane, y>> (normal) or <<lane, y, length>> (hold).       *)
(***************************************************************************)
Offsets == 0 .. MaxOffset
HoldLengths == {12} \cup {50 * k : k \in 1 .. MaxLenUnits}

Charts ==
  \* one normal note, one hold note
  {<< <<0, 430 - o>> >> : o \in Offsets}
  \cup {<< <<1, 430, len>> >> : len \in HoldLengths}
  \* two notes of one lane
  \cup { << <<0, 430>>, <<0, 280>> >>,
         << <<0, 430>>, <<0, 410>> >>,
         << <<0, 410>>, <<0, 430>> >>,
         << <<1, 430, 50>>, <<1, 400, 50>> >>,
         << <<1, 430, 50>>, <<1, 420>> >>,
  \* two lanes
         << <<0, 430>>, <<1, 430, 100>> >> }

\* the charts of the specification with fairness: one of each shape
LiveCharts ==
  { << <<0, 430>> >>,
    << <<0, 430>>, <<0, 280>> >>,
    << <<1, 430, 50>> >>,
    << <<1, 430, 50>>, <<1, 420>> >> }

\* "패턴을 노트로 변환": the notes of a chart, in chart order
pattern_to_note(i, pattern) ==
  IF Len(pattern) = 3 THEN LongNote(i, pattern[1], pattern[2], pattern[3])
                      ELSE Note(i, pattern[1], pattern[2])

load_chart(chart) == [i \in 1 .. Len(chart) |-> pattern_to_note(i, chart[i])]

NoKeys == [l \in Lanes |-> FALSE]

(***************************************************************************)
(* Actions                                                                 *)
(***************************************************************************)
\* RhythmGame.__init__
Init ==
  /\ state = "MENU"
  /\ notes = <<>>
  /\ keys_held = NoKeys
  /\ is_pressed = NoKeys
  /\ score = 0 /\ combo = 0 /\ max_combo = 0
  /\ text = "" /\ timer = 0
  /\ hist = <<>>
  /\ ev = NoEvent

\* start_game: reset the ledger and the keys, load the chart
start_game(chart) ==
  /\ state' = "PLAYING"
  /\ score' = 0 /\ combo' = 0 /\ max_combo' = 0
  /\ notes' = load_chart(chart)
  /\ keys_held' = NoKeys
  /\ is_pressed' = NoKeys
  /\ hist' = [i \in 1 .. Len(chart) |->
                [type |-> load_chart(chart)[i].type, adds |-> 0, removed |-> 0,
                 starts |-> 0, hit |-> FALSE]]
  /\ ev' = [NoEvent EXCEPT !.op = "start"]
  /\ UNCHANGED <<text, timer>>

Commit(W) ==
  /\ notes' = W.notes
  /\ score' = W.score /\ combo' = W.combo /\ max_combo' = W.max_combo
  /\ text' = W.text /\ timer' = W.timer
  /\ hist' = W.hist

EventOf(op, lane, W) ==
  [op |-> op, lane |-> lane, target |-> W.target, d |-> W.d, tier |-> W.tier,
   log |-> W.log]

\* handle_key_down
handle_key_down(key) ==
  LET lane_index == get_lane_from_key(key) IN
  IF lane_index # -1
  THEN \E W \in {check_note_hit(World, lane_index)} :
       /\ keys_held' = [keys_held EXCEPT ![lane_index] = TRUE]
       /\ is_pressed' = [is_pressed EXCEPT ![lane_index] = TRUE]
       /\ Commit(W)
       /\ ev' = EventOf("press", lane_index, W)
       /\ UNCHANGED state
  ELSE UNCHANGED vars

\* handle_key_up
handle_key_up(key) ==
  LET lane_index == get_lane_from_key(key) IN
  IF lane_index # -1
  THEN \E W \in {release_long_notes(World, lane_index)} :
       /\ keys_held' = [keys_held EXCEPT ![lane_index] = FALSE]
       /\ is_pressed' = [is_pressed EXCEPT ![lane_index] = FALSE]
       /\ Commit(W)
       /\ ev' = EventOf("release", lane_index, W)
       /\ UNCHANGED state
  ELSE UNCHANGED vars

\* handle_events, a KEYDOWN event; the chart comes from the set `charts`
KeyDownFrom(charts) ==
  \E key \in Keys :
    IF state = "MENU"
    THEN IF key = "K_SPACE" THEN \E chart \in charts : start_game(chart)
                            ELSE UNCHANGED vars
    ELSE handle_key_down(key)

KeyDown == KeyDownFrom(Charts)

\* the same event with the chart drawn from LiveCharts
KeyDownLive == KeyDownFrom(LiveCharts)

\* handle_events, a KEYUP event
KeyUp ==
  \E key \in Keys :
    IF state = "PLAYING" THEN handle_key_up(key) ELSE UNCHANGED vars

\* update
Update ==
  IF state = "PLAYING"
  THEN \E W \in {update_world(World, keys_held)} :
       /\ Commit(W)
       /\ ev' = EventOf("tick", -1, W)
       /\ UNCHANGED <<state, keys_held, is_pressed>>
  ELSE UNCHANGED vars

Next == KeyDown \/ KeyUp \/ Update

Spec == Init /\ [][Next]_vars

NextLive == KeyDownLive \/ KeyUp \/ Update

\* the main loop calls update() once per iteration, forever
FairSpec == Init /\ [][NextLive]_vars /\ WF_vars(Update)

(***************************************************************************)
(* Properties                                                              *)
(***************************************************************************)
NoteIds == DOMAIN hist
Active(id) == HasId(notes, id)
\* the ledger adds the last handler made for note id
AddsFor(log, id) == {i \in 1 .. Len(log) : log[i].id = id}
Paths(log, id) == {log[i].path : i \in AddsFor(log, id)}

\* C1: a hold note that has been held gets exactly one ledger add in its
\* whole life: none while it is in the active set, one once it has left it,
\* never two (the release handler and the per-frame check never both score it).
C1_ExactlyOneResolution ==
  \A id \in NoteIds :
    (hist[id].type = "LONG" /\ hist[id].starts > 0) =>
      /\ hist[id].adds <= 1
      /\ Active(id) => hist[id].adds = 0
      /\ ~Active(id) => hist[id].adds = 1
      /\ Cardinality(AddsFor(ev.log, id)) <= 1

\* a held hold note was released: the release handler scored it once and
\* removed it, so no frame can score it again
C1_Witness ==
  /\ ev.op = "release"
  /\ \E id \in NoteIds :
       /\ hist[id].type = "LONG" /\ hist[id].starts = 1
       /\ Paths(ev.log, id) = {"release"}
       /\ hist[id].adds = 1 /\ hist[id].removed = 1
       /\ ~Active(id)

\* C2 (state part): holding went false->true at most once; while the note is
\* active its holding flag is still what the hold start made it; a started
\* note that left the active set left it exactly once.
C2_State ==
  \A id \in NoteIds :
    hist[id].type = "LONG" =>
      /\ hist[id].starts <= 1
      /\ hist[id].removed <= 1
      /\ Active(id) => /\ hist[id].removed = 0
                       /\ NoteOf(notes, id).holding <=> (hist[id].starts = 1)
      /\ ~Active(id) => hist[id].removed = 1

\* C2 (step part): holding is set only by a press on the note's lane while
\* its head is within 60 of the line; a started note leaves the active set
\* only by a frame (completion, early release) or the release handler; a
\* note that has left never comes back.
C2_Step ==
  \A id \in NoteIds :
    (state = "PLAYING" /\ hist[id].type = "LONG") =>
      /\ (id \in DOMAIN hist' /\ hist'[id].starts > hist[id].starts) =>
           /\ Active(id)
           /\ ~NoteOf(notes, id).holding
           /\ abs(NoteOf(notes, id).y - 500) < 60
           /\ ev'.op = "press" /\ ev'.lane = NoteOf(notes, id).lane
           /\ NoteOf(notes', id).holding
      /\ (Active(id) /\ NoteOf(notes, id).holding /\ ~HasId(notes', id)) =>
           /\ ev'.op \in {"tick", "release"}
           /\ Paths(ev'.log, id) \subseteq {"complete", "tick_release", "release", "timeout"}
           /\ Cardinality(AddsFor(ev'.log, id)) = 1
      /\ HasId(notes', id) => Active(id)

\* C2: the two parts, and every hold that was started is eventually removed
\* when frames keep coming.
C2_HoldOnceRemovedOnce ==
  /\ []C2_State
  /\ [][C2_Step]_vars
  /\ \A id \in 1 .. 2 :
       [](id \in NoteIds /\ hist[id].starts = 1 => <>(~Active(id)))

\* a hold was started by a press and later removed by the completion check
C2_Witness ==
  /\ ev.op = "tick"
  /\ \E id \in NoteIds :
       /\ hist[id].type = "LONG" /\ hist[id].starts = 1 /\ hist[id].removed = 1
       /\ ~Active(id)
       /\ Paths(ev.log, id) = {"complete"}

\* C3: once the session is playing, with frames kept coming, the active set
\* eventually becomes empty.
C3_Termination == (state = "PLAYING") ~> (state = "PLAYING" /\ notes = <<>>)

\* the last note of a chart left by the grace timeout: nothing resolved it
C3_Witness ==
  /\ state = "PLAYING" /\ notes = <<>>
  /\ ev.op = "tick"
  /\ \E i \in 1 .. Len(ev.log) : ev.log[i].path = "timeout"
  /\ \A id \in NoteIds : hist[id].removed = 1

(***************************************************************************)
(* Vocabulary of the press and release properties, written from the        *)
(* numbers of the claims (line 500, window 60, allowance 30, screen 650)   *)
(***************************************************************************)
Dist(n) == abs(n.y - 500)
InWindow(n) == Dist(n) < 60
Band(d) ==
  CASE d >= 0 /\ d < 15 -> "PERFECT"
    [] d >= 15 /\ d < 30 -> "GREAT"
    [] d >= 30 /\ d < 45 -> "GOOD"
    [] d >= 45 -> "BAD"
Points(t) ==
  CASE t = "PERFECT" -> 300 [] t = "GREAT" -> 200 [] t = "GOOD" -> 100
    [] t = "BAD" -> 50 [] t = "MISS" -> 0
MinOf(S) == CHOOSE x \in S : \A y \in S : x <= y
MaxOf(S) == CHOOSE x \in S : \A y \in S : x >= y

\* indices of the unjudged notes of a lane, and of those inside the window
Unjudged(lane) == {i \in 1 .. Len(notes) : notes[i].lane = lane /\ ~notes[i].hit}
Hittable(lane) == {i \in Unjudged(lane) : InWindow(notes[i])}
\* the first unjudged note of the lane inside the window (0: none)
Sel(lane) == IF Hittable(lane) = {} THEN 0 ELSE MinOf(Hittable(lane))
\* indices of the held hold notes of a lane
Held(lane) ==
  {i \in 1 .. Len(notes) :
     notes[i].lane = lane /\ notes[i].type = "LONG" /\ notes[i].holding}

\* this step is a press / a release of the lane / a frame, during play
PressStep(lane) == state = "PLAYING" /\ ev'.op = "press" /\ ev'.lane = lane
ReleaseStep(lane) == state = "PLAYING" /\ ev'.op = "release" /\ ev'.lane = lane
TickStep == state = "PLAYING" /\ ev'.op = "tick"

\* C4: a press on a lane with no unjudged note within 60 of the line leaves
\* score, combo, max_combo and every note (membership and flags) unchanged.
C4_EmptyPress ==
  [][\A lane \in Lanes :
       (PressStep(lane) /\ \A i \in Unjudged(lane) : Dist(notes[i]) >= 60) =>
         /\ score' = score /\ combo' = combo /\ max_combo' = max_combo
         /\ notes' = notes
         /\ ev'.log = <<>>]_vars

\* a lane was pressed while its unjudged note was exactly 60 from the line
C4_Witness ==
  /\ ev.op = "press" /\ ev.target = 0
  /\ score = 0 /\ combo = 0
  /\ \E i \in 1 .. Len(notes) :
       notes[i].lane = ev.lane /\ ~notes[i].hit /\ Dist(notes[i]) = 60

\* C5: a press that selects a Normal note at distance d < 60 makes exactly
\* one ledger add, of tier Band(d); score grows by that tier's points; the
\* note is marked hit and leaves the active set; d = 10 is Perfect, +300,
\* combo + 1.
C5_NormalHit ==
  [][\A lane \in Lanes :
       (PressStep(lane) /\ Sel(lane) # 0 /\ notes[Sel(lane)].type = "NORMAL") =>
         LET n == notes[Sel(lane)]
             d == Dist(n)
             t == Band(d)
         IN /\ d < 60
            /\ ev'.log = <<[id |-> n.id, tier |-> t, path |-> "press"]>>
            /\ score' = score + Points(t)
            /\ Points(t) \in {300, 200, 100, 50}
            /\ hist'[n.id].adds = hist[n.id].adds + 1
            /\ hist'[n.id].hit
            /\ notes' = RemoveSeq(notes, n.id)
            /\ ~HasId(notes', n.id)
            /\ d = 10 => (t = "PERFECT" /\ score' = score + 300 /\ combo' = combo + 1)]_vars

\* the scenario of the claim: one note, pressed at distance 10
C5_Witness ==
  /\ ev.op = "press" /\ ev.d = 10 /\ ev.tier = "PERFECT"
  /\ Len(hist) = 1 /\ hist[1].type = "NORMAL"
  /\ score = 300 /\ combo = 1 /\ notes = <<>>

\* C6 as claimed: when the first unjudged note of the pressed lane is outside
\* the window, the press resolves nothing.
C6_FirstUnjudgedOnly ==
  [][\A lane \in Lanes :
       (PressStep(lane) /\ Unjudged(lane) # {}
          /\ ~InWindow(notes[MinOf(Unjudged(lane))])) =>
         (notes' = notes /\ score' = score /\ hist' = hist)]_vars

\* C6 (amended): a press acts on the first unjudged note of the lane, in
\* creation order, that is inside the window; unjudged notes outside the
\* window are passed over; every other note is left as it was.
C6_FirstInWindow ==
  [][\A lane \in Lanes :
       PressStep(lane) =>
         IF Sel(lane) = 0
         THEN notes' = notes /\ ev'.target = 0
         ELSE /\ ev'.target = notes[Sel(lane)].id
              /\ \/ ~HasId(notes', ev'.target)
                 \/ NoteOf(notes', ev'.target).holding
              /\ \A i \in 1 .. Len(notes) :
                   i # Sel(lane) =>
                     /\ HasId(notes', notes[i].id)
                     /\ NoteOf(notes', notes[i].id) = notes[i]]_vars

\* the second note of the lane was hit while the first, unjudged and past
\* the window, is still in the active set
C6_Witness ==
  /\ ev.op = "press" /\ ev.target = 2
  /\ ~Active(2)
  /\ Active(1)
  /\ NoteOf(notes, 1).lane = ev.lane
  /\ ~NoteOf(notes, 1).hit
  /\ ~InWindow(NoteOf(notes, 1))

\* C7: a press that selects a Hold note leaves score, combo and max_combo
\* unchanged and makes no ledger add; it sets the note's hit and holding
\* flags and changes nothing else of the active set.
C7_HoldHead ==
  [][\A lane \in Lanes :
       (PressStep(lane) /\ Sel(lane) # 0 /\ notes[Sel(lane)].type = "LONG") =>
         /\ score' = score /\ combo' = combo /\ max_combo' = max_combo
         /\ ev'.log = <<>>
         /\ hist'[notes[Sel(lane)].id].adds = hist[notes[Sel(lane)].id].adds
         /\ notes' = [notes EXCEPT ![Sel(lane)].hit = TRUE,
                                   ![Sel(lane)].holding = TRUE]]_vars

\* a hold head was just pressed after an earlier normal note had scored
C7_Witness ==
  /\ ev.op = "press" /\ ev.target # 0
  /\ Active(ev.target)
  /\ NoteOf(notes, ev.target).type = "LONG"
  /\ NoteOf(notes, ev.target).hit /\ NoteOf(notes, ev.target).holding
  /\ hist[ev.target].adds = 0
  /\ score = 300 /\ combo = 1

\* the tier the claim gives a held note at release
ReleaseTier(n) == IF n.y - n.length >= 500 + 30 THEN "GREAT" ELSE "MISS"
GreatAt(lane) == {i \in Held(lane) : ReleaseTier(notes[i]) = "GREAT"}
MissAt(lane) == {i \in Held(lane) : ReleaseTier(notes[i]) = "MISS"}

\* C8: a release of a lane resolves and removes every held hold note of the
\* lane, in chart order, and nothing else: Great if y - length >= line + 30,
\* otherwise Miss (score + 0, combo 0) - so a release with length left and
\* the tail above line + 30 is a Miss.
C8_Release ==
  [][\A lane \in Lanes :
       ReleaseStep(lane) =>
         /\ \A i \in Held(lane) :
              /\ ~HasId(notes', notes[i].id)
              /\ \E k \in 1 .. Len(ev'.log) :
                   ev'.log[k] = [id |-> notes[i].id, tier |-> ReleaseTier(notes[i]),
                                 path |-> "release"]
              /\ (notes[i].length > 0 /\ notes[i].y - notes[i].length < 530) =>
                   Paths(ev'.log, notes[i].id) = {"release"} /\
                   \A k \in AddsFor(ev'.log, notes[i].id) : ev'.log[k].tier = "MISS"
         /\ Len(ev'.log) = Cardinality(Held(lane))
         /\ notes' = SelectSeq(notes, LAMBDA n :
                       ~(n.lane = lane /\ n.type = "LONG" /\ n.holding))
         /\ score' = score + 200 * Cardinality(GreatAt(lane))
         /\ combo' = IF MissAt(lane) = {}
                     THEN combo + Cardinality(GreatAt(lane))
                     ELSE Cardinality({i \in GreatAt(lane) : i > MaxOf(MissAt(lane))})]_vars

\* a hold was released with its tail exactly at line + 30 and scored Great
\* on top of an earlier score
C8_Witness ==
  /\ ev.op = "release"
  /\ Len(ev.log) = 1 /\ ev.log[1].tier = "GREAT" /\ ev.log[1].path = "release"
  /\ ~Active(ev.log[1].id)
  /\ hist[ev.log[1].id].adds = 1
  /\ score = 200 /\ combo = 1

\* a hold was released with length left and its tail above line + 30: Miss,
\* and the combo of the earlier hit is reset
C8_WitnessMiss ==
  /\ ev.op = "release"
  /\ Len(ev.log) = 1 /\ ev.log[1].tier = "MISS"
  /\ score = 300 /\ combo = 0 /\ max_combo = 1

PastScreen(n) == IF n.type = "NORMAL" THEN n.y > 650 ELSE n.y - n.length > 650
\* an unjudged note moves by 5 in a frame
PastScreenAfterMove(n) ==
  IF n.type = "NORMAL" THEN n.y + 5 > 650 ELSE n.y + 5 - n.length > 650

\* C9 (state part): the counter of a note in the active set is below 180; a
\* note with a positive counter is unjudged, past the screen and unscored.
C9_State ==
  \A i \in 1 .. Len(notes) :
    /\ notes[i].off_screen_time >= 0 /\ notes[i].off_screen_time < 180
    /\ notes[i].off_screen_time > 0 =>
         /\ ~notes[i].hit
         /\ PastScreen(notes[i])
         /\ hist[notes[i].id].adds = 0

\* C9 (step part): the counter never decreases and grows only by 1, in a
\* frame that leaves the note unjudged and past the screen; in such a frame
\* the note is scored Miss and removed exactly when the counter reaches 180,
\* and otherwise stays, unscored.
C9_Step ==
  \A i \in 1 .. Len(notes) :
    LET n == notes[i]
        id == n.id
    IN /\ HasId(notes', id) =>
            /\ NoteOf(notes', id).off_screen_time >= n.off_screen_time
            /\ NoteOf(notes', id).off_screen_time > n.off_screen_time =>
                 /\ TickStep
                 /\ NoteOf(notes', id).off_screen_time = n.off_screen_time + 1
                 /\ ~n.hit /\ PastScreen(NoteOf(notes', id))
       /\ (TickStep /\ ~n.hit /\ PastScreenAfterMove(n)) =>
            IF n.off_screen_time + 1 = 180
            THEN /\ ~HasId(notes', id)
                 /\ Cardinality(AddsFor(ev'.log, id)) = 1
                 /\ \A k \in AddsFor(ev'.log, id) :
                      ev'.log[k].tier = "MISS" /\ ev'.log[k].path = "timeout"
                 /\ hist'[id].adds = 1
                 /\ score' = score
            ELSE /\ HasId(notes', id)
                 /\ NoteOf(notes', id).off_screen_time = n.off_screen_time + 1
                 /\ AddsFor(ev'.log, id) = {}
       /\ (TickStep /\ "timeout" \in Paths(ev'.log, id)) =>
            (n.off_screen_time = 179 /\ ~n.hit /\ PastScreenAfterMove(n))
       /\ (TickStep /\ ~n.hit /\ ~PastScreenAfterMove(n)) =>
            /\ HasId(notes', id)
            /\ NoteOf(notes', id).off_screen_time = n.off_screen_time

\* C9: the grace timeout.
C9_GraceTimeout == []C9_State /\ [][C9_Step]_vars

\* a never-pressed hold note was just removed by the timeout, after an
\* earlier normal note had been hit
C9_Witness ==
  /\ ev.op = "tick"
  /\ \E k \in 1 .. Len(ev.log) :
       /\ ev.log[k].path = "timeout" /\ ev.log[k].tier = "MISS"
       /\ hist[ev.log[k].id].type = "LONG"
       /\ hist[ev.log[k].id].adds = 1
       /\ ~hist[ev.log[k].id].hit
       /\ ~Active(ev.log[k].id)
  /\ score = 300 /\ combo = 0 /\ max_combo = 1

\* distances at which the judgment function is evaluated directly
MaxDistance == 100

\* the judgment function on the distances 0..MaxDistance
C10_Total ==
  /\ \A d \in 0 .. MaxDistance :
       /\ calculate_judgment(d) = Band(d)
       /\ calculate_judgment(d) \in Tiers \ {"MISS"}
  /\ calculate_judgment(15) = "GREAT"
  /\ calculate_judgment(30) = "GOOD"
  /\ calculate_judgment(45) = "BAD"

\* C10: calculate_judgment is total on the distances 0..MaxDistance with
\* the half-open bands (15 Great, 30 Good, 45 Bad) and never gives Miss; a
\* press judges with the band of its distance, and gives Bad exactly for
\* 45 <= d < 60.
C10_Bands ==
  /\ C10_Total
  /\ (ev.op = "press" /\ ev.target # 0) =>
       /\ ev.d >= 0 /\ ev.d < 60
       /\ ev.tier = Band(ev.d)
       /\ text = ev.tier
       /\ ev.tier # "MISS"
       /\ ev.tier = "BAD" <=> (45 <= ev.d /\ ev.d < 60)
       /\ \A k \in 1 .. Len(ev.log) : ev.log[k].tier = Band(ev.d)

\* a normal note was pressed at distance exactly 45 and scored Bad
C10_Witness ==
  /\ ev.op = "press" /\ ev.d = 45 /\ ev.tier = "BAD"
  /\ Len(ev.log) = 1
  /\ score = 50 /\ combo = 0

(***************************************************************************)
(* Ledger properties                                                       *)
(***************************************************************************)
\* combo after the first k ledger adds of a handler that started with combo c
RECURSIVE ComboAt(_, _, _)
ComboAt(c, log, k) ==
  IF k = 0 THEN c
  ELSE IF log[k].tier \in {"PERFECT", "GREAT", "GOOD"}
       THEN ComboAt(c, log, k - 1) + 1
       ELSE 0
\* the largest combo during those adds
PeakCombo(c, log) ==
  MaxOf({ComboAt(c, log, k) : k \in 0 .. Len(log)})

\* C11: during play, each ledger add of a handler moves combo to combo + 1
\* (Perfect, Great, Good) or to 0 (Bad, Miss), and a handler that makes no
\* add leaves combo as it was.
C11_ComboRule ==
  [][state = "PLAYING" =>
       /\ \A k \in 1 .. Len(ev'.log) : ev'.log[k].tier \in Tiers
       /\ combo' = ComboAt(combo, ev'.log, Len(ev'.log))
       /\ ev'.log = <<>> => combo' = combo
       /\ (Len(ev'.log) = 1 /\ ev'.log[1].tier \in {"PERFECT", "GREAT", "GOOD"}) =>
            combo' = combo + 1
       /\ (Len(ev'.log) = 1 /\ ev'.log[1].tier \in {"BAD", "MISS"}) =>
            combo' = 0]_vars

\* a Bad hit reset the combo a Perfect hit had started
C11_Witness ==
  /\ ev.op = "press" /\ ev.tier = "BAD" /\ Len(ev.log) = 1
  /\ combo = 0 /\ max_combo = 1 /\ score = 350

\* C12 (step part): max_combo never decreases and becomes the larger of its
\* old value and the largest combo reached during the handler.
C12_Step ==
  /\ state = "PLAYING" =>
       /\ max_combo' >= max_combo
       /\ max_combo' = max(max_combo, PeakCombo(combo, ev'.log))
  /\ state = "MENU" => (max_combo' = 0 /\ combo' = 0)

\* C12 (state part): combo never exceeds max_combo
C12_State == combo >= 0 /\ combo <= max_combo

\* C12: combo <= max_combo in every state, both 0 at the reset, and with
\* the step part max_combo is the largest combo since the reset.
C12_MaxCombo == []C12_State /\ [][C12_Step]_vars

\* a Perfect hit raised combo and max_combo to 1; the timeout Miss of the
\* second normal note reset combo and left max_combo at 1
C12_Witness ==
  /\ ev.op = "tick" /\ Len(ev.log) = 1
  /\ ev.log[1].tier = "MISS" /\ ev.log[1].path = "timeout"
  /\ hist[ev.log[1].id].type = "NORMAL"
  /\ score = 300 /\ combo = 0 /\ max_combo = 1

(***************************************************************************)
(* Selection and extent of a press                                         *)
(***************************************************************************)
\* the active set lists the notes in creation order (ids are chart indices)
CreationOrder ==
  \A i, j \in 1 .. Len(notes) : i < j => notes[i].id < notes[j].id

\* ids of the notes this step removed from the active set / started to hold
RemovedBy == {id \in NoteIds : Active(id) /\ ~HasId(notes', id)}
StartedBy ==
  {id \in NoteIds :
     /\ Active(id) /\ HasId(notes', id)
     /\ ~NoteOf(notes, id).holding /\ NoteOf(notes', id).holding}

\* C13: the active set is in creation order, and a press that finds two or
\* more unjudged notes of its lane inside the window acts on the one with
\* the lowest id (the earliest created), and on no other; that note need not
\* be the nearest one.
C13_EarliestInWindow ==
  /\ []CreationOrder
  /\ [][\A lane \in Lanes :
         (PressStep(lane) /\ Cardinality(Hittable(lane)) >= 2) =>
           /\ ev'.target = MinOf({notes[i].id : i \in Hittable(lane)})
           /\ RemovedBy \cup StartedBy = {ev'.target}]_vars

\* note 1 was hit at distance 55 while note 2 of the lane, created later,
\* unjudged and only 35 from the line, stayed in the active set
C13_Witness ==
  /\ ev.op = "press" /\ ev.target = 1 /\ ev.d = 55
  /\ \E i \in 1 .. Len(notes) :
       /\ notes[i].id = 2 /\ notes[i].lane = ev.lane /\ ~notes[i].hit
       /\ Dist(notes[i]) = 35

\* C14: a press removes at most one note and starts at most one hold, never
\* both: a removed note is a Normal note of the lane and got the press's single
\* ledger add; a started hold is a Hold note of the lane and the press made no
\* ledger add; every other note is unchanged.
C14_AtMostOne ==
  [][\A lane \in Lanes :
       PressStep(lane) =>
         /\ Cardinality(RemovedBy \cup StartedBy) <= 1
         /\ Len(ev'.log) = Cardinality(RemovedBy)
         /\ \A id \in RemovedBy :
              /\ NoteOf(notes, id).type = "NORMAL" /\ NoteOf(notes, id).lane = lane
              /\ ev'.log[1].id = id /\ hist'[id].adds = hist[id].adds + 1
         /\ \A id \in StartedBy :
              /\ NoteOf(notes, id).type = "LONG" /\ NoteOf(notes, id).lane = lane
              /\ hist'[id].adds = hist[id].adds
         /\ Len(notes') = Len(notes) - Cardinality(RemovedBy)
         /\ \A id \in NoteIds \ (RemovedBy \cup StartedBy) :
              /\ hist'[id] = hist[id]
              /\ Active(id) => NoteOf(notes', id) = NoteOf(notes, id)]_vars

\* a press started the first of two hold notes of the lane, both inside the
\* window, and left the second one unjudged; no ledger add was made
C14_Witness ==
  /\ ev.op = "press" /\ ev.target = 1 /\ ev.log = <<>>
  /\ Len(notes) = 2
  /\ notes[1].type = "LONG" /\ notes[1].holding
  /\ notes[2].type = "LONG" /\ notes[2].lane = notes[1].lane
  /\ ~notes[2].hit /\ InWindow(notes[2])
  /\ score = 0

(***************************************************************************)
(* The frame: advance and completion of hold notes                         *)
(***************************************************************************)
\* the remaining length of a held note after this frame's advance
Remaining(n) == IF n.length - 5 > 0 THEN n.length - 5 ELSE 0
AllKeys == [l \in Lanes |-> TRUE]

\* C15 (the completion check taken alone, on the advanced notes of the
\* state): for a held note with nothing remaining it makes exactly one add,
\* of path "complete", Great when the lane is recorded as pressed and Miss
\* when it is not, and removes the note.
C15_Check ==
  state = "PLAYING" =>
    \A held \in {NoKeys, AllKeys} :
      \A i \in 1 .. Len(notes) :
        (notes[i].type = "LONG" /\ notes[i].holding /\ Remaining(notes[i]) <= 0) =>
          LET W1 == move_notes(World)
              W2 == complete_one(W1, W1.notes[i], held)
          IN /\ ~HasId(W2.notes, notes[i].id)
             /\ Len(W2.log) = 1
             /\ W2.log[1] = [id |-> notes[i].id,
                             tier |-> IF held[notes[i].lane] THEN "GREAT" ELSE "MISS",
                             path |-> "complete"]

\* C15 (step part): a frame resolves, in that same frame, every held note
\* whose remaining length after the advance is <= 0: one add, by the
\* completion check and not by the early-release check, Great if the lane
\* is recorded as pressed and Miss otherwise, and the note is removed.
C15_Step ==
  TickStep =>
    \A i \in 1 .. Len(notes) :
      (notes[i].type = "LONG" /\ notes[i].holding /\ Remaining(notes[i]) <= 0) =>
        /\ ~HasId(notes', notes[i].id)
        /\ Cardinality(AddsFor(ev'.log, notes[i].id)) = 1
        /\ Paths(ev'.log, notes[i].id) = {"complete"}
        /\ \A k \in AddsFor(ev'.log, notes[i].id) :
             ev'.log[k].tier = IF keys_held[notes[i].lane] THEN "GREAT" ELSE "MISS"

\* C15: a held hold note whose remaining length reaches 0 in a frame is
\* resolved by the completion check in that frame (Great if the lane is
\* pressed, Miss if not), removed, and never gets the early-release Miss too.
C15_Completion == []C15_Check /\ [][C15_Step]_vars

\* a frame completed the held hold note of lane 1 with the key still
\* recorded as pressed: one Great, from the completion check
C15_Witness ==
  /\ ev.op = "tick" /\ keys_held[1]
  /\ ev.log = << [id |-> 1, tier |-> "GREAT", path |-> "complete"] >>
  /\ hist[1].type = "LONG" /\ hist[1].removed = 1 /\ ~Active(1)
  /\ score = 200 /\ combo = 1

\* C16 (the advance taken alone, on every note of the state)
C16_Advance ==
  \A i \in 1 .. Len(notes) :
    LET n == notes[i]
        m == note_update(n, 5)
    IN /\ n.length >= 0
       /\ (n.type = "LONG" /\ n.holding) =>
            m.y = n.y /\ m.length = Remaining(n) /\ m.length >= 0
       /\ (n.type = "LONG" /\ ~n.holding) =>
            m.y = n.y + 5 /\ m.length = n.length
       /\ n.type = "NORMAL" => m.y = n.y + 5

\* C16 (step part): what a frame does to a note that stays in the active set
C16_Step ==
  TickStep =>
    \A id \in NoteIds :
      (Active(id) /\ HasId(notes', id)) =>
        LET n == NoteOf(notes, id)
            m == NoteOf(notes', id)
        IN /\ (n.type = "LONG" /\ n.holding) =>
                m.y = n.y /\ m.length = Remaining(n)
           /\ (n.type = "LONG" /\ ~n.holding) =>
                m.y = n.y + 5 /\ m.length = n.length
           /\ n.type = "NORMAL" => m.y = n.y + 5

\* C16: a held hold note keeps y and its length becomes max(0, length - 5),
\* never negative; an unheld hold note moves by 5 and keeps its length; a
\* Normal note moves by 5.
C16_HoldAdvance == []C16_Advance /\ [][C16_Step]_vars

\* a hold of length 12 has been held for two frames: head still where it was
\* pressed, 2 left, and the next advance floors the length at 0
C16_Witness ==
  /\ ev.op = "tick"
  /\ \E i \in 1 .. Len(notes) :
       /\ notes[i].type = "LONG" /\ notes[i].holding
       /\ notes[i].length = 2 /\ InWindow(notes[i])
       /\ note_update(notes[i], 5).length = 0

(***************************************************************************)
(* Held notes and the score                                                *)
(***************************************************************************)
\* C17: every note with holding = true is a Hold note with hit = true; a
\* hold that was started and not yet resolved is in the active set with
\* holding = true; in particular the press that judged its head left it there.
C17_HeldIsJudgedAndActive ==
  /\ \A i \in 1 .. Len(notes) :
       notes[i].holding => notes[i].type = "LONG" /\ notes[i].hit
  /\ \A id \in NoteIds :
       (hist[id].starts > 0 /\ hist[id].adds = 0) =>
         Active(id) /\ NoteOf(notes, id).holding /\ NoteOf(notes, id).hit
  /\ (ev.op = "press" /\ ev.target # 0 /\ hist[ev.target].type = "LONG") =>
       Active(ev.target) /\ NoteOf(notes, ev.target).holding

\* a hold of length 100 whose head was judged is, one frame later, still in
\* the active set, holding and hit, with 95 left
C17_Witness ==
  /\ ev.op = "tick" /\ ev.log = <<>>
  /\ \E i \in 1 .. Len(notes) :
       /\ notes[i].type = "LONG" /\ notes[i].holding /\ notes[i].hit
       /\ notes[i].length = 95
       /\ hist[notes[i].id].starts = 1 /\ hist[notes[i].id].removed = 0

RECURSIVE SumPoints(_, _)
SumPoints(log, k) == IF k = 0 THEN 0 ELSE SumPoints(log, k - 1) + Points(log[k].tier)

\* C18 (step part): during play score changes by the sum of the handler's
\* ledger adds, each of 0, 50, 100, 200 or 300, and so never decreases;
\* without an add it does not change.
C18_Step ==
  state = "PLAYING" =>
    /\ score' >= score
    /\ score' - score = SumPoints(ev'.log, Len(ev'.log))
    /\ \A k \in 1 .. Len(ev'.log) :
         /\ ev'.log[k].tier \in Tiers
         /\ score_values(ev'.log[k].tier) = Points(ev'.log[k].tier)
         /\ Points(ev'.log[k].tier) \in {0, 50, 100, 200, 300}
    /\ ev'.log = <<>> => score' = score
    /\ Len(ev'.log) = 1 => score' - score \in {0, 50, 100, 200, 300}

\* C18 (state part)
C18_State == score \in Nat

\* C18: score is a natural number, never decreases during play, and changes
\* only by ledger adds of 0, 50, 100, 200 or 300.
C18_Score == []C18_State /\ [][C18_Step]_vars

\* after a Good hit (+100) the timeout Miss of the other note added 0
C18_Witness ==
  /\ ev.op = "tick" /\ Len(ev.log) = 1 /\ ev.log[1].tier = "MISS"
  /\ score = 100 /\ combo = 0 /\ max_combo = 1

(***************************************************************************)
(* Key routing                                                             *)
(***************************************************************************)
\* keys the mapping of get_lane_from_key does not hold
UnmappedKeys == {"K_SPACE", "K_j", "K_ESCAPE"}

\* C19 (unmapped keys): during play the handlers accept a key that maps to
\* no lane (they have an outcome, no error) and that outcome changes nothing.
C19_Unmapped ==
  state = "PLAYING" =>
    \A key \in UnmappedKeys :
      /\ get_lane_from_key(key) = -1
      /\ ENABLED handle_key_down(key)
      /\ ~ENABLED (handle_key_down(key) /\ vars' # vars)
      /\ ENABLED handle_key_up(key)
      /\ ~ENABLED (handle_key_up(key) /\ vars' # vars)

\* C19 (mapped keys): a press records its lane as pressed, a release clears
\* it; the flags of the other lanes are untouched; a frame changes no flag.
C19_Step ==
  /\ \A lane \in Lanes :
       /\ PressStep(lane) =>
            /\ keys_held' = [keys_held EXCEPT ![lane] = TRUE]
            /\ is_pressed' = [is_pressed EXCEPT ![lane] = TRUE]
       /\ ReleaseStep(lane) =>
            /\ keys_held' = [keys_held EXCEPT ![lane] = FALSE]
            /\ is_pressed' = [is_pressed EXCEPT ![lane] = FALSE]
  /\ TickStep => keys_held' = keys_held /\ is_pressed' = is_pressed
  /\ (state = "PLAYING" /\ (keys_held' # keys_held \/ is_pressed' # is_pressed)) =>
       ev'.op \in {"press", "release"} /\ ev'.lane \in {0, 1}

\* C19: a key that maps to no lane is a no-op without error; a mapped press
\* sets the lane's pressed flag and a mapped release clears it.
C19_KeyRouting == []C19_Unmapped /\ [][C19_Step]_vars

\* lane 1 is recorded as pressed and holds a note: the state in which space,
\* a key of no lane, is offered to both handlers
C19_Witness ==
  /\ state = "PLAYING" /\ ev.op = "press" /\ ev.lane = 1
  /\ keys_held[1] /\ is_pressed[1] /\ ~keys_held[0]
  /\ Held(1) # {}
  /\ get_lane_from_key("K_SPACE") = -1
  /\ ENABLED handle_key_down("K_SPACE")
  /\ ENABLED handle_key_up("K_SPACE")

\* C20 (state part): a held note's lane is recorded as pressed; no handler
\* took the per-frame early-release Miss or the per-frame Miss at
\* completion; a Miss on a started hold is the release handler's.
C20_State ==
  /\ \A i \in 1 .. Len(notes) : notes[i].holding => keys_held[notes[i].lane]
  /\ \A k \in 1 .. Len(ev.log) :
       /\ ev.log[k].path # "tick_release"
       /\ ev.log[k].path = "complete" => ev.log[k].tier = "GREAT"
       /\ (ev.log[k].tier = "MISS" /\ hist[ev.log[k].id].starts > 0) =>
            ev.op = "release" /\ ev.log[k].path = "release"

\* C20 (step part): a release leaves no held note of its lane in the active set
C20_Step ==
  \A lane \in Lanes :
    ReleaseStep(lane) =>
      /\ \A i \in Held(lane) : ~HasId(notes', notes[i].id)
      /\ \A j \in 1 .. Len(notes') : notes'[j].lane = lane => ~notes'[j].holding

\* C20: holding implies the lane is recorded as pressed, because a release
\* removes every held note of its lane; so the two per-frame Miss arms are
\* never taken and every Miss on a held note comes from the release handler.
C20_HeldImpliesPressed == []C20_State /\ [][C20_Step]_vars

\* the held first note of lane 1 was released early: Miss from the release
\* handler, note gone, lane no longer recorded as pressed, second note left
C20_Witness ==
  /\ ev.op = "release" /\ ev.lane = 1 /\ ~keys_held[1]
  /\ ev.log = << [id |-> 1, tier |-> "MISS", path |-> "release"] >>
  /\ hist[1].starts = 1 /\ ~Active(1)
  /\ Len(notes) = 1 /\ ~notes[1].holding

(***************************************************************************)
(* Flags of the active notes and the ledger count                          *)
(***************************************************************************)
RECURSIVE SumOver(_, _)
SumOver(f, S) ==
  IF S = {} THEN 0
  ELSE LET x == CHOOSE x \in S : TRUE IN f[x] + SumOver(f, S \ {x})

\* ledger adds made so far / removals from the active set so far
TotalAdds == SumOver([id \in NoteIds |-> hist[id].adds], NoteIds)
TotalRemoved == SumOver([id \in NoteIds |-> hist[id].removed], NoteIds)

\* C21 (state part): an active Normal note is unjudged; an active Hold note
\* has hit = holding; a held note is not past the screen, now or after the
\* next advance, so no judged note ever meets the past-screen cleanup; every
\* note has as many adds as removals, and the totals equal the number of
\* notes that have left the active set.
C21_State ==
  /\ \A i \in 1 .. Len(notes) :
       /\ notes[i].type = "NORMAL" => ~notes[i].hit
       /\ notes[i].type = "LONG" => (notes[i].hit <=> notes[i].holding)
       /\ notes[i].holding => ~PastScreen(notes[i])
       /\ notes[i].hit => ~is_off_screen(note_update(notes[i], note_speed))
  /\ \A id \in NoteIds :
       /\ hist[id].adds = hist[id].removed
       /\ hist[id].removed = IF Active(id) THEN 0 ELSE 1
  /\ TotalAdds = TotalRemoved
  /\ TotalRemoved = Cardinality(NoteIds) - Len(notes)

\* C21 (step part): a handler makes exactly one ledger add for each note it
\* removes, and none for any other note.
C21_Step ==
  state = "PLAYING" =>
    /\ Len(ev'.log) = Len(notes) - Len(notes')
    /\ \A id \in NoteIds :
         Cardinality(AddsFor(ev'.log, id)) =
           IF Active(id) /\ ~HasId(notes', id) THEN 1 ELSE 0

\* C21: active Normal notes are unjudged, active Hold notes have
\* hit = holding, held notes are never past the screen, so no note is removed
\* without scoring and ledger adds = removals at all times.
C21_ScoredExactlyOnce == []C21_State /\ [][C21_Step]_vars

\* the Normal note of lane 0 was hit (one add, one removal) and the Hold note
\* of lane 1 is being held, hit = holding = true, after a frame
C21_Witness ==
  /\ ev.op = "tick"
  /\ Cardinality(NoteIds) = 2 /\ Len(notes) = 1
  /\ hist[1].type = "NORMAL" /\ hist[1].adds = 1 /\ hist[1].removed = 1
  /\ notes[1].id = 2 /\ notes[1].type = "LONG"
  /\ notes[1].hit /\ notes[1].holding
  /\ TotalAdds = 1

(***************************************************************************)
(* Release of a pinned hold                                                *)
(***************************************************************************)
\* C22 (state part): a held note's head is within 60 of the line
C22_State ==
  \A i \in 1 .. Len(notes) : notes[i].holding => InWindow(notes[i])

\* C22 (step part): the head of a hold stays where the press found it for
\* as long as the note is held; a release scores a held note Great only if
\* the head is at least 30 past the line and the remaining length is at
\* most head y - 500 - 30, and scores Miss every note whose head is at or
\* before the line or less than 30 from it.
C22_Step ==
  /\ \A id \in StartedBy :
       NoteOf(notes', id).y = NoteOf(notes, id).y /\ InWindow(NoteOf(notes, id))
  /\ \A id \in NoteIds :
       (Active(id) /\ NoteOf(notes, id).holding /\ HasId(notes', id)) =>
         NoteOf(notes', id).holding /\ NoteOf(notes', id).y = NoteOf(notes, id).y
  /\ \A lane \in Lanes :
       ReleaseStep(lane) =>
         \A i \in Held(lane) :
           \A k \in AddsFor(ev'.log, notes[i].id) :
             /\ ev'.log[k].tier = "GREAT" =>
                  /\ notes[i].y - 500 >= 30
                  /\ notes[i].length <= notes[i].y - 500 - 30
             /\ (notes[i].y <= 500 \/ Dist(notes[i]) < 30) =>
                  ev'.log[k].tier = "MISS"

\* C22: a held head is pinned within 60 of the line, so a release is Great
\* only with the head >= 30 past the line and remaining length
\* <= head y - 500 - 30; a head pressed at or before the line, or less than
\* 30 from it, gets Miss from every release.
C22_PinnedRelease == []C22_State /\ [][C22_Step]_vars

\* a hold whose head was pressed 10 before the line has been held until only
\* 5 of its length remain: releasing now still scores Miss
C22_Witness ==
  /\ ev.op = "tick" /\ keys_held[1]
  /\ Len(notes) = 1 /\ notes[1].type = "LONG" /\ notes[1].holding
  /\ notes[1].lane = 1 /\ notes[1].y = 490 /\ notes[1].length = 5
  /\ ENABLED (handle_key_up("K_s")
                /\ ev'.log = << [id |-> notes[1].id, tier |-> "MISS",
                                 path |-> "release"] >>)

====
